---- MODULE Spec2Model ----
(***************************************************************************)
(* Model of the FIFO ring buffer (fifo_buffer.c) and of the UART message   *)
(* framing built on it (uart_message_fifo.c).                              *)
(*                                                                         *)
(* C arrays are 0-indexed; the storage is a function on 0..size-1.  A C    *)
(* message array is a sequence here, so C's message[i] is message[i+1].    *)
(* The target is an AVR (SREG, cli): int is 16 bits wide, so arithmetic on *)
(* uint16_t operands is unsigned and wraps modulo 2^16.                    *)
(***************************************************************************)
EXTENDS Integers, Sequences, FiniteSets, TLC

\* ---------------------------------------------------------------- bounds
MaxSize == 3        \* ring sizes 1..MaxSize in the ring-level specification
MaxPushes == 4      \* accepted bytes per run between two resets
MaxRing == 7        \* small ring sizes 3..MaxRing in the message-level specification
MaxMsgBytes == 5    \* no further byte or message is offered once this many were accepted
MaxIrqSize == 2     \* ring sizes 1..MaxIrqSize when the safe variants run against the handler
MaxIrqBytes == 3    \* bytes accepted per run in the interrupt-level specifications
MaxInitSize == 20   \* sizes 0..MaxInitSize, and the largest 16-bit size, are passed to the initialisers

\* ------------------------------------------------------------- constants
U16 == 65536
U8 == 256
MESSAGE_START_BYTE == 170
BUFFER_SIZE == 128

\* bytes the caller pushes in the ring-level specification (0x10, 0x14, 0xAA)
RingBytes == {16, 20, 170}

VARIABLES
    fifo,       \* the FIFO_Buffer structure, storage included
    op,         \* name of the last operation called
    arg,        \* its arguments, as a sequence of numbers
    ret,        \* its return value (TRUE for a void function)
    why,        \* which return statement it left through
    out,        \* the caller's output byte (*data of Pop and Peek)
    message,    \* the caller's output array of Get_UART_Message
    length,     \* the caller's output length of Get_UART_Message
    pushed,     \* history: bytes accepted by the ring since init / reset
    popped,     \* history: bytes handed out by the ring since init / reset
    discarded,  \* history: number of bytes dropped by an overwriting push
    SREG_I,     \* the global interrupt enable flag of SREG
    task        \* the task context: where it stands in the code, and its locals

vars == <<fifo, op, arg, ret, why, out, message, length, pushed, popped, discarded,
          SREG_I, task>>

\* ------------------------------------------------------------ fifo_buffer
FIFO_Init(buffer, size) ==
    [buffer |-> buffer,
     size |-> size,
     head |-> 0,
     tail |-> 0,
     count |-> 0,
     high_watermark |-> (size - (size \div 4)) % U16,
     low_watermark |-> size \div 4,
     overwrite_enabled |-> FALSE]

\* FIFO_Reset that also puts the overwrite flag back to its default
FIFO_Reset_ClearsFlag(f) ==
    [f EXCEPT !.head = 0, !.tail = 0, !.count = 0, !.overwrite_enabled = FALSE]

FIFO_Reset(f) ==
    [f EXCEPT !.head = 0, !.tail = 0, !.count = 0]

\* FIFO_Push that overwrites whenever the ring is full, whatever the flag says
FIFO_Push_IgnoreFlag(f, data) ==
    IF f.count = f.size
    THEN [fifo |-> [f EXCEPT !.tail = (f.tail + 1) % f.size,
                             !.buffer[f.head] = data,
                             !.head = (f.head + 1) % f.size],
          ret |-> TRUE]
    ELSE [fifo |-> [f EXCEPT !.count = f.count + 1,
                             !.buffer[f.head] = data,
                             !.head = (f.head + 1) % f.size],
          ret |-> TRUE]

\* FIFO_Push that overwrites without moving the tail past the dropped byte
FIFO_Push_StaleTail(f, data) ==
    IF f.count = f.size
    THEN IF f.overwrite_enabled
         THEN [fifo |-> [f EXCEPT !.buffer[f.head] = data,
                                  !.head = (f.head + 1) % f.size],
               ret |-> TRUE]
         ELSE [fifo |-> f, ret |-> FALSE]
    ELSE [fifo |-> [f EXCEPT !.count = f.count + 1,
                             !.buffer[f.head] = data,
                             !.head = (f.head + 1) % f.size],
          ret |-> TRUE]

FIFO_Push(f, data) ==
    IF f.count = f.size
    THEN IF f.overwrite_enabled
         THEN [fifo |-> [f EXCEPT !.tail = (f.tail + 1) % f.size,
                                  !.buffer[f.head] = data,
                                  !.head = (f.head + 1) % f.size],
               ret |-> TRUE]
         ELSE [fifo |-> f, ret |-> FALSE]
    ELSE [fifo |-> [f EXCEPT !.count = f.count + 1,
                             !.buffer[f.head] = data,
                             !.head = (f.head + 1) % f.size],
          ret |-> TRUE]

\* FIFO_PushOverwrite that counts the new byte even when it replaces one
FIFO_PushOverwrite_CountAlways(f, data) ==
    IF f.count = f.size
    THEN [f EXCEPT !.tail = (f.tail + 1) % f.size,
                   !.count = f.count + 1,
                   !.buffer[f.head] = data,
                   !.head = (f.head + 1) % f.size]
    ELSE [f EXCEPT !.count = f.count + 1,
                   !.buffer[f.head] = data,
                   !.head = (f.head + 1) % f.size]

\* FIFO_PushOverwrite that consults the overwrite flag and drops the new
\* byte when the ring is full and the flag is off
FIFO_PushOverwrite_ChecksFlag(f, data) ==
    IF f.count = f.size
    THEN IF f.overwrite_enabled
         THEN [f EXCEPT !.tail = (f.tail + 1) % f.size,
                        !.buffer[f.head] = data,
                        !.head = (f.head + 1) % f.size]
         ELSE f
    ELSE [f EXCEPT !.count = f.count + 1,
                   !.buffer[f.head] = data,
                   !.head = (f.head + 1) % f.size]

\* FIFO_PushOverwrite that overwrites without moving the tail
FIFO_PushOverwrite_StaleTail(f, data) ==
    IF f.count = f.size
    THEN [f EXCEPT !.buffer[f.head] = data,
                   !.head = (f.head + 1) % f.size]
    ELSE [f EXCEPT !.count = f.count + 1,
                   !.buffer[f.head] = data,
                   !.head = (f.head + 1) % f.size]

FIFO_PushOverwrite(f, data) ==
    IF f.count = f.size
    THEN [f EXCEPT !.tail = (f.tail + 1) % f.size,
                   !.buffer[f.head] = data,
                   !.head = (f.head + 1) % f.size]
    ELSE [f EXCEPT !.count = f.count + 1,
                   !.buffer[f.head] = data,
                   !.head = (f.head + 1) % f.size]

\* FIFO_Pop that never moves the tail
FIFO_Pop_StaleTail(f, data) ==
    IF f.count = 0
    THEN [fifo |-> f, ret |-> FALSE, data |-> data]
    ELSE [fifo |-> [f EXCEPT !.count = f.count - 1],
          ret |-> TRUE,
          data |-> f.buffer[f.tail]]

\* FIFO_Pop that copies the byte at tail before it tests for emptiness
FIFO_Pop_ReadFirst(f, data) ==
    IF f.count = 0
    THEN [fifo |-> f, ret |-> FALSE, data |-> f.buffer[f.tail]]
    ELSE [fifo |-> [f EXCEPT !.tail = (f.tail + 1) % f.size,
                             !.count = f.count - 1],
          ret |-> TRUE,
          data |-> f.buffer[f.tail]]

\* FIFO_Pop that forgets to decrement count
FIFO_Pop_KeepCount(f, data) ==
    IF f.count = 0
    THEN [fifo |-> f, ret |-> FALSE, data |-> data]
    ELSE [fifo |-> [f EXCEPT !.tail = (f.tail + 1) % f.size],
          ret |-> TRUE,
          data |-> f.buffer[f.tail]]

\* data is the value *data holds before the call
FIFO_Pop(f, data) ==
    IF f.count = 0
    THEN [fifo |-> f, ret |-> FALSE, data |-> data]
    ELSE [fifo |-> [f EXCEPT !.tail = (f.tail + 1) % f.size,
                             !.count = f.count - 1],
          ret |-> TRUE,
          data |-> f.buffer[f.tail]]

\* FIFO_Peek whose range test is off by one (index > count)
FIFO_Peek_OffByOne(f, index, data) ==
    IF index > f.count
    THEN [ret |-> FALSE, data |-> data]
    ELSE [ret |-> TRUE,
          data |-> f.buffer[((f.tail + index) % U16) % f.size]]

\* data is the value *data holds before the call
FIFO_Peek(f, index, data) ==
    IF index >= f.count
    THEN [ret |-> FALSE, data |-> data]
    ELSE [ret |-> TRUE,
          data |-> f.buffer[((f.tail + index) % U16) % f.size]]

\* FIFO_IsEmpty inferred from the indices instead of the counter
FIFO_IsEmpty_HeadTail(f) == f.head = f.tail

FIFO_IsEmpty(f) == f.count = 0

\* FIFO_IsFull inferred from the indices instead of the counter
FIFO_IsFull_HeadTail(f) == f.head = f.tail

FIFO_IsFull(f) == f.count = f.size

FIFO_SetOverwrite(f, enable) ==
    [f EXCEPT !.overwrite_enabled = enable]

\* a statically allocated array, which C zero-initialises; malloc'ed storage
\* is indeterminate, but the ring never reads a cell before writing it
ZeroStorage(size) == [i \in 0..(size - 1) |-> 0]

\* the null pointer: no storage
NullStorage == <<>>

\* allocated tells whether malloc returned storage (for size 0 either answer
\* is allowed); size - 1 is computed in unsigned 16-bit arithmetic
FIFO_Init_Dynamic(f, size, allocated) ==
    IF ~allocated
    THEN [fifo |-> [f EXCEPT !.buffer = NullStorage], ret |-> FALSE]
    ELSE [fifo |-> [buffer |-> ZeroStorage(size),
                    size |-> size,
                    head |-> 0,
                    tail |-> 0,
                    count |-> 0,
                    high_watermark |-> (size - 1) % U16,
                    low_watermark |-> 1,
                    overwrite_enabled |-> FALSE],
          ret |-> TRUE]

\* ---------------------------------------------------------------- helpers
\* one more FIFO_Pop of a caller who pops until FIFO_Pop fails
DrainStep(s) ==
    LET r == FIFO_Pop(s.fifo, 0)
    IN  IF r.ret
        THEN [fifo |-> r.fifo, seq |-> Append(s.seq, r.data), done |-> FALSE]
        ELSE [s EXCEPT !.done = TRUE]

\* up to n such calls (split in halves to keep the nesting shallow)
RECURSIVE DrainIter(_, _)
DrainIter(s, n) ==
    IF n = 0 \/ s.done THEN s
    ELSE IF n = 1 THEN DrainStep(s)
    ELSE DrainIter(DrainIter(s, n \div 2), n - (n \div 2))

\* the bytes a caller gets by calling FIFO_Pop until it fails; storage has
\* size cells, so size + 1 calls are enough to see it fail
Drain(f) ==
    DrainIter([fifo |-> f, seq |-> <<>>, done |-> FALSE], f.size + 1).seq

\* number of bytes the history says are stored
Stored == Len(pushed) - Len(popped) - discarded

Min(a, b) == IF a < b THEN a ELSE b

LastN(s, n) == SubSeq(s, Len(s) - n + 1, Len(s))

\* the task context between two calls; interrupts are disabled after reset
\* until the program executes sei()
IdleTask ==
    [pc |-> "idle", caller |-> "", data |-> 0, tmp |-> 0, sreg |-> FALSE,
     entry |-> FALSE, result |-> TRUE, i |-> 0, message_length |-> 0,
     checksum |-> 0]

\* ---------------------------------------------------------- initial state
Init ==
    /\ \E size \in 1..MaxSize : fifo = FIFO_Init(ZeroStorage(size), size)
    /\ op = "Init"
    /\ arg = <<>>
    /\ ret = TRUE
    /\ why = "OK"
    /\ out = 0
    /\ message = <<>>
    /\ length = 0
    /\ pushed = <<>>
    /\ popped = <<>>
    /\ discarded = 0
    /\ SREG_I = FALSE
    /\ task = IdleTask

\* ---------------------------------------------------- ring-level actions
DoPush ==
    \E d \in RingBytes :
        /\ Len(pushed) < MaxPushes
        /\ LET r == FIFO_Push(fifo, d)
           IN  /\ fifo' = r.fifo
               /\ ret' = r.ret
               /\ why' = IF r.ret THEN "OK" ELSE "Full"
               /\ pushed' = IF r.ret THEN Append(pushed, d) ELSE pushed
               /\ discarded' = IF r.ret /\ Stored = fifo.size
                               THEN discarded + 1 ELSE discarded
        /\ op' = "Push"
        /\ arg' = <<d>>
        /\ UNCHANGED <<out, message, length, popped, SREG_I, task>>

DoPushOverwrite ==
    \E d \in RingBytes :
        /\ Len(pushed) < MaxPushes
        /\ fifo' = FIFO_PushOverwrite(fifo, d)
        /\ ret' = TRUE
        /\ why' = "OK"
        /\ pushed' = Append(pushed, d)
        /\ discarded' = IF Stored = fifo.size THEN discarded + 1 ELSE discarded
        /\ op' = "PushOverwrite"
        /\ arg' = <<d>>
        /\ UNCHANGED <<out, message, length, popped, SREG_I, task>>

DoPop ==
    /\ LET r == FIFO_Pop(fifo, out)
       IN  /\ fifo' = r.fifo
           /\ ret' = r.ret
           /\ why' = IF r.ret THEN "OK" ELSE "Empty"
           /\ out' = r.data
           /\ popped' = IF r.ret THEN Append(popped, r.data) ELSE popped
    /\ op' = "Pop"
    /\ arg' = <<>>
    /\ UNCHANGED <<message, length, pushed, discarded, SREG_I, task>>

DoPeek ==
    \E index \in 0..(MaxSize + 1) :
        /\ LET r == FIFO_Peek(fifo, index, out)
           IN  /\ ret' = r.ret
               /\ why' = IF r.ret THEN "OK" ELSE "OutOfRange"
               /\ out' = r.data
        /\ op' = "Peek"
        /\ arg' = <<index>>
        /\ UNCHANGED <<fifo, message, length, pushed, popped, discarded, SREG_I, task>>

DoIsEmpty ==
    /\ ret' = FIFO_IsEmpty(fifo)
    /\ why' = "OK"
    /\ op' = "IsEmpty"
    /\ arg' = <<>>
    /\ UNCHANGED <<fifo, out, message, length, pushed, popped, discarded, SREG_I, task>>

DoIsFull ==
    /\ ret' = FIFO_IsFull(fifo)
    /\ why' = "OK"
    /\ op' = "IsFull"
    /\ arg' = <<>>
    /\ UNCHANGED <<fifo, out, message, length, pushed, popped, discarded, SREG_I, task>>

DoReset ==
    /\ fifo' = FIFO_Reset(fifo)
    /\ ret' = TRUE
    /\ why' = "OK"
    /\ op' = "Reset"
    /\ arg' = <<>>
    /\ pushed' = <<>>
    /\ popped' = <<>>
    /\ discarded' = 0
    /\ UNCHANGED <<out, message, length, SREG_I, task>>

DoSetOverwrite ==
    \E enable \in BOOLEAN :
        /\ fifo' = FIFO_SetOverwrite(fifo, enable)
        /\ ret' = TRUE
        /\ why' = "OK"
        /\ op' = "SetOverwrite"
        /\ arg' = <<IF enable THEN 1 ELSE 0>>
        /\ UNCHANGED <<out, message, length, pushed, popped, discarded, SREG_I, task>>

Next ==
    \/ DoPush
    \/ DoPushOverwrite
    \/ DoPop
    \/ DoPeek
    \/ DoIsEmpty
    \/ DoIsFull
    \/ DoReset
    \/ DoSetOverwrite

Spec == Init /\ [][Next]_vars

\* ------------------------------------------------------- initialisation
\* sizes passed to the initialisers
InitSizes == (0..MaxInitSize) \cup {U16 - 1}

\* a FIFO_Buffer object with static storage duration before any initialiser
\* ran: all members zero
UninitFifo ==
    [buffer |-> NullStorage, size |-> 0, head |-> 0, tail |-> 0, count |-> 0,
     high_watermark |-> 0, low_watermark |-> 0, overwrite_enabled |-> FALSE]

InitInit ==
    /\ fifo = UninitFifo
    /\ op = "None"
    /\ arg = <<>>
    /\ ret = TRUE
    /\ why = "OK"
    /\ out = 0
    /\ message = <<>>
    /\ length = 0
    /\ pushed = <<>>
    /\ popped = <<>>
    /\ discarded = 0
    /\ SREG_I = FALSE
    /\ task = IdleTask

DoInitStatic ==
    \E size \in InitSizes :
        /\ fifo' = FIFO_Init(ZeroStorage(size), size)
        /\ ret' = TRUE
        /\ why' = "OK"
        /\ op' = "InitStatic"
        /\ arg' = <<size>>
        /\ pushed' = <<>>
        /\ popped' = <<>>
        /\ discarded' = 0
        /\ UNCHANGED <<out, message, length, SREG_I, task>>

DoInitDynamic ==
    \E size \in InitSizes, allocated \in BOOLEAN :
        /\ LET r == FIFO_Init_Dynamic(fifo, size, allocated)
           IN  /\ fifo' = r.fifo
               /\ ret' = r.ret
               /\ why' = IF r.ret THEN "OK" ELSE "AllocationError"
        /\ op' = "InitDynamic"
        /\ arg' = <<size>>
        /\ pushed' = <<>>
        /\ popped' = <<>>
        /\ discarded' = 0
        /\ UNCHANGED <<out, message, length, SREG_I, task>>

NextInit ==
    \/ DoInitStatic
    \/ DoInitDynamic

SpecInit == InitInit /\ [][NextInit]_vars

\* ------------------------------------------------------ uart_message_fifo
\* bitwise exclusive or of two bytes
RECURSIVE Xor(_, _)
Xor(a, b) ==
    IF a = 0 /\ b = 0 THEN 0
    ELSE (((a % 2) + (b % 2)) % 2) + 2 * Xor(a \div 2, b \div 2)

\* message[i] = v on the caller's array; the sequence holds the cells written
\* so far, which a call writes in index order from 0
WriteAt(msg, i, v) ==
    IF i < Len(msg) THEN [msg EXCEPT ![i + 1] = v] ELSE Append(msg, v)

\* The loops run up to 255 times; n iterations are evaluated as the first
\* n \div 2 followed by the remaining ones, which is the same sequence of
\* iterations with a nesting depth of log n.  A loop state carries done once
\* the body has executed a return.

\* one iteration of the for loop of Add_UART_Message
AddStep(s, msg) ==
    LET r == FIFO_Push(s.fifo, msg[s.i + 1])
    IN  IF ~r.ret
        THEN [fifo |-> r.fifo, i |-> s.i, done |-> TRUE]
        ELSE [fifo |-> r.fifo, i |-> (s.i + 1) % U8, done |-> FALSE]

\* n consecutive iterations of that loop, stopping at a return
RECURSIVE AddIter(_, _, _)
AddIter(s, msg, n) ==
    IF n = 0 \/ s.done THEN s
    ELSE IF n = 1 THEN AddStep(s, msg)
    ELSE AddIter(AddIter(s, msg, n \div 2), msg, n - (n \div 2))

\* BUFFER_SIZE - fifo->count is computed in unsigned 16-bit arithmetic; i is
\* the loop counter on return, the number of bytes pushed
Add_UART_Message(f, msg, len) ==
    IF len < 3
    THEN [fifo |-> f, ret |-> FALSE, why |-> "InvalidLength", i |-> 0]
    ELSE IF ((BUFFER_SIZE - f.count) % U16) < len
    THEN [fifo |-> f, ret |-> FALSE, why |-> "InsufficientSpace", i |-> 0]
    ELSE LET s == AddIter([fifo |-> f, i |-> 0, done |-> FALSE], msg, len)
         IN  IF s.done
             THEN [fifo |-> s.fifo, ret |-> FALSE, why |-> "PushFailed", i |-> s.i]
             ELSE [fifo |-> s.fifo, ret |-> TRUE, why |-> "OK", i |-> s.i]

\* GetStep that adds the byte to the checksum instead of xor-ing it
GetStep_SumChecksum(s) ==
    LET r == FIFO_Pop(s.fifo, IF s.i < Len(s.message) THEN s.message[s.i + 1] ELSE 0)
    IN  IF ~r.ret
        THEN [s EXCEPT !.fifo = r.fifo, !.done = TRUE]
        ELSE [fifo |-> r.fifo,
              message |-> WriteAt(s.message, s.i, r.data),
              i |-> (s.i + 1) % U8,
              checksum |-> (s.checksum + r.data) % U8,
              taken |-> Append(s.taken, r.data),
              done |-> FALSE]

\* GetStep that does not test the result of FIFO_Pop
GetStep_IgnoreFail(s) ==
    LET r == FIFO_Pop(s.fifo, IF s.i < Len(s.message) THEN s.message[s.i + 1] ELSE 0)
    IN  [fifo |-> r.fifo,
         message |-> WriteAt(s.message, s.i, r.data),
         i |-> (s.i + 1) % U8,
         checksum |-> Xor(s.checksum, r.data),
         taken |-> IF r.ret THEN Append(s.taken, r.data) ELSE s.taken,
         done |-> FALSE]

\* one iteration of the for loop of Get_UART_Message; taken collects the
\* bytes the call has popped
GetStep(s) ==
    LET r == FIFO_Pop(s.fifo, IF s.i < Len(s.message) THEN s.message[s.i + 1] ELSE 0)
    IN  IF ~r.ret
        THEN [s EXCEPT !.fifo = r.fifo, !.done = TRUE]
        ELSE [fifo |-> r.fifo,
              message |-> WriteAt(s.message, s.i, r.data),
              i |-> (s.i + 1) % U8,
              checksum |-> Xor(s.checksum, r.data),
              taken |-> Append(s.taken, r.data),
              done |-> FALSE]

\* n consecutive iterations of that loop, stopping at a return
RECURSIVE GetIter(_, _)
GetIter(s, n) ==
    IF n = 0 \/ s.done THEN s
    ELSE IF n = 1 THEN GetStep(s)
    ELSE GetIter(GetIter(s, n \div 2), n - (n \div 2))

\* msg and len are what the caller's array and length hold before the call
Get_UART_Message(f, msg, len) ==
    IF FIFO_IsEmpty(f)
    THEN [fifo |-> f, ret |-> FALSE, why |-> "Empty",
          message |-> msg, length |-> len, taken |-> <<>>]
    ELSE
    LET start == FIFO_Pop(f, 0)
    IN  IF ~start.ret \/ start.data # MESSAGE_START_BYTE
        THEN [fifo |-> start.fifo, ret |-> FALSE, why |-> "InvalidStart",
              message |-> msg, length |-> len,
              taken |-> IF start.ret THEN <<start.data>> ELSE <<>>]
        ELSE
        LET ml == FIFO_Pop(start.fifo, 0)
        IN  IF ~ml.ret \/ ml.data < 3
            THEN [fifo |-> ml.fifo, ret |-> FALSE, why |-> "InvalidLength",
                  message |-> msg, length |-> len,
                  taken |-> IF ml.ret THEN <<start.data, ml.data>>
                                      ELSE <<start.data>>]
            ELSE
            LET message_length == ml.data
                s == GetIter([fifo |-> ml.fifo,
                              message |-> WriteAt(WriteAt(msg, 0, MESSAGE_START_BYTE),
                                                  1, message_length),
                              i |-> 2,
                              checksum |-> 0,
                              taken |-> <<start.data, ml.data>>,
                              done |-> FALSE],
                             message_length - 2)
            IN  IF s.done
                THEN [fifo |-> s.fifo, ret |-> FALSE, why |-> "Incomplete",
                      message |-> s.message, length |-> message_length,
                      taken |-> s.taken]
                ELSE IF s.checksum # 0
                THEN [fifo |-> s.fifo, ret |-> FALSE, why |-> "ChecksumMismatch",
                      message |-> s.message, length |-> message_length,
                      taken |-> s.taken]
                ELSE [fifo |-> s.fifo, ret |-> TRUE, why |-> "OK",
                      message |-> s.message, length |-> message_length,
                      taken |-> s.taken]

\* -------------------------------------------------- message-level inputs
\* exclusive or of all bytes of a sequence
RECURSIVE XorAll(_)
XorAll(s) ==
    IF Len(s) = 0 THEN 0
    ELSE IF Len(s) = 1 THEN s[1]
    ELSE LET h == Len(s) \div 2
         IN  Xor(XorAll(SubSeq(s, 1, h)), XorAll(SubSeq(s, h + 1, Len(s))))

\* start byte, own length in the length byte, payload and checksum xor to 0
WellFormed(m) ==
    /\ Len(m) >= 3
    /\ Len(m) <= 255
    /\ m[1] = MESSAGE_START_BYTE
    /\ m[2] = Len(m)
    /\ XorAll(SubSeq(m, 3, Len(m))) = 0

\* a well-formed message one byte longer than BUFFER_SIZE
LongMsg ==
    [i \in 1..(BUFFER_SIZE + 1) |->
        IF i = 1 THEN MESSAGE_START_BYTE
        ELSE IF i = 2 THEN BUFFER_SIZE + 1 ELSE 0]

\* raw bytes the receive handler delivers: a start byte and a length byte
ReceivedBytes == {170, 3}

Messages ==
    { <<170, 3, 0>>,            \* well formed, empty payload
      <<170, 4, 16, 16>>,       \* well formed
      <<170, 4, 16, 20>>,       \* checksum 0x10 ^ 0x14 = 0x04
      <<170, 2, 0>>,            \* length byte below 3
      <<170, 2>>,               \* shorter than 3
      LongMsg }

\* ring sizes of the message-level specification: small ones, and one that
\* holds LongMsg
MsgRingSizes == (3..MaxRing) \cup {BUFFER_SIZE + 1}

InitMsg ==
    /\ \E size \in MsgRingSizes : fifo = FIFO_Init(ZeroStorage(size), size)
    /\ op = "Init"
    /\ arg = <<>>
    /\ ret = TRUE
    /\ why = "OK"
    /\ out = 0
    /\ message = <<>>
    /\ length = 0
    /\ pushed = <<>>
    /\ popped = <<>>
    /\ discarded = 0
    /\ SREG_I = FALSE
    /\ task = IdleTask

\* ------------------------------------------------- message-level actions
DoAdd ==
    \E m \in Messages :
    \E len \in {Len(m)} :
        /\ Len(pushed) < MaxMsgBytes
        /\ LET r == Add_UART_Message(fifo, m, len)
           IN  /\ fifo' = r.fifo
               /\ ret' = r.ret
               /\ why' = r.why
               /\ pushed' = pushed \o SubSeq(m, 1, r.i)
               /\ discarded' = IF Stored + r.i > fifo.size
                               THEN discarded + (Stored + r.i - fifo.size)
                               ELSE discarded
        /\ op' = "Add"
        /\ arg' = <<len>> \o m
        /\ UNCHANGED <<out, message, length, popped, SREG_I, task>>

DoGet ==
    /\ LET r == Get_UART_Message(fifo, message, length)
       IN  /\ fifo' = r.fifo
           /\ ret' = r.ret
           /\ why' = r.why
           /\ message' = r.message
           /\ length' = r.length
           /\ popped' = popped \o r.taken
    /\ op' = "Get"
    /\ arg' = <<>>
    /\ UNCHANGED <<out, pushed, discarded, SREG_I, task>>

\* the received-byte interrupt handler: FIFO_Push of one raw byte
DoReceive ==
    \E d \in ReceivedBytes :
        /\ Len(pushed) < MaxMsgBytes
        /\ LET r == FIFO_Push(fifo, d)
           IN  /\ fifo' = r.fifo
               /\ ret' = r.ret
               /\ why' = IF r.ret THEN "OK" ELSE "Full"
               /\ pushed' = IF r.ret THEN Append(pushed, d) ELSE pushed
               /\ discarded' = IF r.ret /\ Stored = fifo.size
                               THEN discarded + 1 ELSE discarded
        /\ op' = "Push"
        /\ arg' = <<d>>
        /\ UNCHANGED <<out, message, length, popped, SREG_I, task>>

NextMsg ==
    \/ DoAdd
    \/ DoGet
    \/ DoReceive

SpecMsg == InitMsg /\ [][NextMsg]_vars

\* --------------------------------------------- task and interrupt handler
\* The task executes one access of ring state per step; the interrupt handler
\* runs to completion in one step, and only while SREG_I is set (the AVR
\* clears the flag on entry to a handler and reti sets it again).

\* cli() that leaves the flag alone
cli_Noop(i) == i

\* cli(): the new value of the interrupt enable flag
cli(i) == FALSE

\* SREG = sreg replaced by an unconditional sei()
RestoreSREG_Sei(sreg) == TRUE

\* SREG = sreg: the new value of the interrupt enable flag
RestoreSREG(sreg) == sreg

\* program positions inside FIFO_Push and FIFO_Pop
PushBody == {"Push_test", "Push_tail", "Push_count_rd", "Push_count_wr",
             "Push_store", "Push_head"}

PopBody == {"Pop_test", "Pop_read", "Pop_tail", "Pop_count_rd", "Pop_count_wr"}

\* where FIFO_Pop returns to
AfterPop(caller) ==
    IF caller = "PopSafe" THEN "PopSafe_restore"
    ELSE IF caller = "Get_start" THEN "Get_start_chk"
    ELSE IF caller = "Get_len" THEN "Get_len_chk"
    ELSE "Get_body_chk"

InitIrq(sizes) ==
    /\ \E size \in sizes : fifo = FIFO_Init(ZeroStorage(size), size)
    /\ op = "Init"
    /\ arg = <<>>
    /\ ret = TRUE
    /\ why = "OK"
    /\ out = 0
    /\ message = <<>>
    /\ length = 0
    /\ pushed = <<>>
    /\ popped = <<>>
    /\ discarded = 0
    /\ SREG_I = TRUE
    /\ task = IdleTask

\* bytes the UART delivers: start byte, a length, a payload byte
IrqBytes == {MESSAGE_START_BYTE, 3, 0}

\* ISR(USART_RX_vect): FIFO_Push of the received byte
IsrReceive ==
    \E d \in IrqBytes :
        /\ SREG_I
        /\ Len(pushed) < MaxIrqBytes
        /\ LET r == FIFO_Push(fifo, d)
           IN  /\ fifo' = r.fifo
               /\ pushed' = IF r.ret THEN Append(pushed, d) ELSE pushed
               /\ discarded' = IF r.ret /\ fifo.count = fifo.size
                               THEN discarded + 1 ELSE discarded
        /\ UNCHANGED <<op, arg, ret, why, out, message, length, popped, SREG_I, task>>

\* a handler that takes a byte out with FIFO_Pop
IsrPop ==
    /\ SREG_I
    /\ LET r == FIFO_Pop(fifo, 0)
       IN  /\ fifo' = r.fifo
           /\ popped' = IF r.ret THEN Append(popped, r.data) ELSE popped
    /\ UNCHANGED <<op, arg, ret, why, out, message, length, pushed, discarded, SREG_I, task>>

\* the caller's own critical section around its calls
CallerCli ==
    /\ task.pc = "idle"
    /\ SREG_I' = cli(SREG_I)
    /\ UNCHANGED <<fifo, op, arg, ret, why, out, message, length, pushed, popped,
                   discarded, task>>

CallerSei ==
    /\ task.pc = "idle"
    /\ SREG_I' = TRUE
    /\ UNCHANGED <<fifo, op, arg, ret, why, out, message, length, pushed, popped,
                   discarded, task>>

TaskSetOverwrite ==
    /\ task.pc = "idle"
    /\ \E enable \in BOOLEAN :
          /\ fifo' = FIFO_SetOverwrite(fifo, enable)
          /\ op' = "SetOverwrite"
          /\ arg' = <<IF enable THEN 1 ELSE 0>>
          /\ ret' = TRUE
          /\ why' = "OK"
    /\ UNCHANGED <<out, message, length, pushed, popped, discarded, SREG_I, task>>

\* ---- FIFO_PushSafe
PushSafe_call ==
    \E d \in ReceivedBytes :
        /\ task.pc = "idle"
        /\ Len(pushed) < MaxIrqBytes
        /\ task' = [task EXCEPT !.pc = "PushSafe_save", !.caller = "PushSafe",
                                !.data = d, !.entry = SREG_I]
        /\ op' = "PushSafe"
        /\ arg' = <<d>>
        /\ UNCHANGED <<fifo, ret, why, out, message, length, pushed, popped,
                       discarded, SREG_I>>

PushSafe_save ==
    /\ task.pc = "PushSafe_save"
    /\ task' = [task EXCEPT !.pc = "PushSafe_cli", !.sreg = SREG_I]
    /\ UNCHANGED <<fifo, op, arg, ret, why, out, message, length, pushed, popped,
                   discarded, SREG_I>>

PushSafe_cli ==
    /\ task.pc = "PushSafe_cli"
    /\ SREG_I' = cli(SREG_I)
    /\ task' = [task EXCEPT !.pc = "Push_test"]
    /\ UNCHANGED <<fifo, op, arg, ret, why, out, message, length, pushed, popped,
                   discarded>>

PushSafe_restore ==
    /\ task.pc = "PushSafe_restore"
    /\ SREG_I' = RestoreSREG(task.sreg)
    /\ ret' = task.result
    /\ why' = IF task.result THEN "OK" ELSE "Full"
    /\ task' = [IdleTask EXCEPT !.entry = task.entry]
    /\ UNCHANGED <<fifo, op, arg, out, message, length, pushed, popped, discarded>>

\* ---- FIFO_Push, one access of the structure per step
Push_test ==
    /\ task.pc = "Push_test"
    /\ task' = IF fifo.count = fifo.size
               THEN IF fifo.overwrite_enabled
                    THEN [task EXCEPT !.pc = "Push_tail"]
                    ELSE [task EXCEPT !.pc = "PushSafe_restore", !.result = FALSE]
               ELSE [task EXCEPT !.pc = "Push_count_rd"]
    /\ UNCHANGED <<fifo, op, arg, ret, why, out, message, length, pushed, popped,
                   discarded, SREG_I>>

Push_tail ==
    /\ task.pc = "Push_tail"
    /\ fifo' = [fifo EXCEPT !.tail = (fifo.tail + 1) % fifo.size]
    /\ discarded' = discarded + 1
    /\ task' = [task EXCEPT !.pc = "Push_store"]
    /\ UNCHANGED <<op, arg, ret, why, out, message, length, pushed, popped, SREG_I>>

Push_count_rd ==
    /\ task.pc = "Push_count_rd"
    /\ task' = [task EXCEPT !.pc = "Push_count_wr", !.tmp = fifo.count]
    /\ UNCHANGED <<fifo, op, arg, ret, why, out, message, length, pushed, popped,
                   discarded, SREG_I>>

Push_count_wr ==
    /\ task.pc = "Push_count_wr"
    /\ fifo' = [fifo EXCEPT !.count = (task.tmp + 1) % U16]
    /\ task' = [task EXCEPT !.pc = "Push_store", !.tmp = 0]
    /\ UNCHANGED <<op, arg, ret, why, out, message, length, pushed, popped,
                   discarded, SREG_I>>

Push_store ==
    /\ task.pc = "Push_store"
    /\ fifo' = [fifo EXCEPT !.buffer[fifo.head] = task.data]
    /\ pushed' = Append(pushed, task.data)
    /\ task' = [task EXCEPT !.pc = "Push_head"]
    /\ UNCHANGED <<op, arg, ret, why, out, message, length, popped, discarded, SREG_I>>

Push_head ==
    /\ task.pc = "Push_head"
    /\ fifo' = [fifo EXCEPT !.head = (fifo.head + 1) % fifo.size]
    /\ task' = [task EXCEPT !.pc = "PushSafe_restore", !.result = TRUE]
    /\ UNCHANGED <<op, arg, ret, why, out, message, length, pushed, popped,
                   discarded, SREG_I>>

\* ---- FIFO_PopSafe
PopSafe_call ==
    /\ task.pc = "idle"
    /\ task' = [task EXCEPT !.pc = "PopSafe_save", !.caller = "PopSafe",
                            !.data = out, !.entry = SREG_I]
    /\ op' = "PopSafe"
    /\ arg' = <<>>
    /\ UNCHANGED <<fifo, ret, why, out, message, length, pushed, popped,
                   discarded, SREG_I>>

PopSafe_save ==
    /\ task.pc = "PopSafe_save"
    /\ task' = [task EXCEPT !.pc = "PopSafe_cli", !.sreg = SREG_I]
    /\ UNCHANGED <<fifo, op, arg, ret, why, out, message, length, pushed, popped,
                   discarded, SREG_I>>

PopSafe_cli ==
    /\ task.pc = "PopSafe_cli"
    /\ SREG_I' = cli(SREG_I)
    /\ task' = [task EXCEPT !.pc = "Pop_test"]
    /\ UNCHANGED <<fifo, op, arg, ret, why, out, message, length, pushed, popped,
                   discarded>>

PopSafe_restore ==
    /\ task.pc = "PopSafe_restore"
    /\ SREG_I' = RestoreSREG(task.sreg)
    /\ ret' = task.result
    /\ why' = IF task.result THEN "OK" ELSE "Empty"
    /\ out' = task.data
    /\ task' = [IdleTask EXCEPT !.entry = task.entry]
    /\ UNCHANGED <<fifo, op, arg, message, length, pushed, popped, discarded>>

\* ---- FIFO_Pop, one access of the structure per step
Pop_test ==
    /\ task.pc = "Pop_test"
    /\ task' = IF fifo.count = 0
               THEN [task EXCEPT !.pc = AfterPop(task.caller), !.result = FALSE]
               ELSE [task EXCEPT !.pc = "Pop_read"]
    /\ UNCHANGED <<fifo, op, arg, ret, why, out, message, length, pushed, popped,
                   discarded, SREG_I>>

Pop_read ==
    /\ task.pc = "Pop_read"
    /\ task' = [task EXCEPT !.pc = "Pop_tail", !.data = fifo.buffer[fifo.tail]]
    /\ popped' = Append(popped, fifo.buffer[fifo.tail])
    /\ UNCHANGED <<fifo, op, arg, ret, why, out, message, length, pushed,
                   discarded, SREG_I>>

Pop_tail ==
    /\ task.pc = "Pop_tail"
    /\ fifo' = [fifo EXCEPT !.tail = (fifo.tail + 1) % fifo.size]
    /\ task' = [task EXCEPT !.pc = "Pop_count_rd"]
    /\ UNCHANGED <<op, arg, ret, why, out, message, length, pushed, popped,
                   discarded, SREG_I>>

Pop_count_rd ==
    /\ task.pc = "Pop_count_rd"
    /\ task' = [task EXCEPT !.pc = "Pop_count_wr", !.tmp = fifo.count]
    /\ UNCHANGED <<fifo, op, arg, ret, why, out, message, length, pushed, popped,
                   discarded, SREG_I>>

Pop_count_wr ==
    /\ task.pc = "Pop_count_wr"
    /\ fifo' = [fifo EXCEPT !.count = (task.tmp - 1) % U16]
    /\ task' = [task EXCEPT !.pc = AfterPop(task.caller), !.result = TRUE, !.tmp = 0]
    /\ UNCHANGED <<op, arg, ret, why, out, message, length, pushed, popped,
                   discarded, SREG_I>>

NextSafe ==
    \/ IsrReceive
    \/ IsrPop
    \/ CallerCli
    \/ CallerSei
    \/ TaskSetOverwrite
    \/ PushSafe_call
    \/ PushSafe_save
    \/ PushSafe_cli
    \/ PushSafe_restore
    \/ Push_test
    \/ Push_tail
    \/ Push_count_rd
    \/ Push_count_wr
    \/ Push_store
    \/ Push_head
    \/ PopSafe_call
    \/ PopSafe_save
    \/ PopSafe_cli
    \/ PopSafe_restore
    \/ Pop_test
    \/ Pop_read
    \/ Pop_tail
    \/ Pop_count_rd
    \/ Pop_count_wr

SpecSafe == InitIrq(1..MaxIrqSize) /\ [][NextSafe]_vars

\* ---- Get_UART_Message as the main loop runs it, one access per step
Get_call ==
    /\ task.pc = "idle"
    /\ task' = [task EXCEPT !.pc = "Get_empty", !.caller = "Get", !.entry = SREG_I]
    /\ op' = "Get"
    /\ arg' = <<>>
    /\ UNCHANGED <<fifo, ret, why, out, message, length, pushed, popped,
                   discarded, SREG_I>>

\* if (FIFO_IsEmpty(fifo)) return false;
Get_empty ==
    /\ task.pc = "Get_empty"
    /\ IF FIFO_IsEmpty(fifo)
       THEN /\ task' = [IdleTask EXCEPT !.entry = task.entry]
            /\ ret' = FALSE
            /\ why' = "Empty"
       ELSE /\ task' = [task EXCEPT !.pc = "Pop_test", !.caller = "Get_start"]
            /\ UNCHANGED <<ret, why>>
    /\ UNCHANGED <<fifo, op, arg, out, message, length, pushed, popped,
                   discarded, SREG_I>>

\* if (!FIFO_Pop(fifo, &start_byte) || start_byte != MESSAGE_START_BYTE)
Get_start_chk ==
    /\ task.pc = "Get_start_chk"
    /\ IF ~task.result \/ task.data # MESSAGE_START_BYTE
       THEN /\ task' = [IdleTask EXCEPT !.entry = task.entry]
            /\ ret' = FALSE
            /\ why' = "InvalidStart"
       ELSE /\ task' = [task EXCEPT !.pc = "Pop_test", !.caller = "Get_len"]
            /\ UNCHANGED <<ret, why>>
    /\ UNCHANGED <<fifo, op, arg, out, message, length, pushed, popped,
                   discarded, SREG_I>>

\* if (!FIFO_Pop(fifo, &message_length) || message_length < 3), then the
\* header cells of the caller's array and *length
Get_len_chk ==
    /\ task.pc = "Get_len_chk"
    /\ IF ~task.result \/ task.data < 3
       THEN /\ task' = [IdleTask EXCEPT !.entry = task.entry]
            /\ ret' = FALSE
            /\ why' = "InvalidLength"
            /\ UNCHANGED <<message, length>>
       ELSE /\ task' = [task EXCEPT !.pc = "Get_loop", !.message_length = task.data,
                                    !.checksum = 0, !.i = 2]
            /\ length' = task.data
            /\ message' = WriteAt(WriteAt(message, 0, MESSAGE_START_BYTE), 1, task.data)
            /\ UNCHANGED <<ret, why>>
    /\ UNCHANGED <<fifo, op, arg, out, pushed, popped, discarded, SREG_I>>

\* for (...; i < message_length; ...)
Get_loop ==
    /\ task.pc = "Get_loop"
    /\ task' = IF task.i < task.message_length
               THEN [task EXCEPT !.pc = "Pop_test", !.caller = "Get_body"]
               ELSE [task EXCEPT !.pc = "Get_checksum"]
    /\ UNCHANGED <<fifo, op, arg, ret, why, out, message, length, pushed, popped,
                   discarded, SREG_I>>

\* if (!FIFO_Pop(fifo, &message[i])) return false; checksum ^= message[i]; i++
Get_body_chk ==
    /\ task.pc = "Get_body_chk"
    /\ IF ~task.result
       THEN /\ task' = [IdleTask EXCEPT !.entry = task.entry]
            /\ ret' = FALSE
            /\ why' = "Incomplete"
            /\ UNCHANGED message
       ELSE /\ task' = [task EXCEPT !.pc = "Get_loop",
                                    !.checksum = Xor(task.checksum, task.data),
                                    !.i = (task.i + 1) % U8]
            /\ message' = WriteAt(message, task.i, task.data)
            /\ UNCHANGED <<ret, why>>
    /\ UNCHANGED <<fifo, op, arg, out, length, pushed, popped, discarded, SREG_I>>

\* if (checksum != 0) return false; return true;
Get_checksum ==
    /\ task.pc = "Get_checksum"
    /\ task' = [IdleTask EXCEPT !.entry = task.entry]
    /\ ret' = (task.checksum = 0)
    /\ why' = IF task.checksum = 0 THEN "OK" ELSE "ChecksumMismatch"
    /\ UNCHANGED <<fifo, op, arg, out, message, length, pushed, popped,
                   discarded, SREG_I>>

\* main() after sei(): the loop polls Get_UART_Message, the handler pushes
NextDeploy ==
    \/ IsrReceive
    \/ Get_call
    \/ Get_empty
    \/ Get_start_chk
    \/ Get_len_chk
    \/ Get_loop
    \/ Get_body_chk
    \/ Get_checksum
    \/ Pop_test
    \/ Pop_read
    \/ Pop_tail
    \/ Pop_count_rd
    \/ Pop_count_wr

SpecDeploy == InitIrq((MaxIrqSize + 1)..(MaxIrqSize + 2)) /\ [][NextDeploy]_vars

\* ------------------------------------------------------------------ claims
\* C1: while no byte has been dropped by an overwrite, the bytes handed out
\* by successful pops are a prefix of the bytes accepted by pushes, and
\* popping the rest returns the remaining accepted bytes in push order.
C1_FifoOrder ==
    discarded = 0 =>
        /\ Len(popped) <= Len(pushed)
        /\ popped = SubSeq(pushed, 1, Len(popped))
        /\ Drain(fifo) = SubSeq(pushed, Len(popped) + 1, Len(pushed))

C1_Witness ==
    /\ discarded = 0
    /\ ~fifo.overwrite_enabled
    /\ Len(pushed) > fifo.size
    /\ Len(popped) >= 2
    /\ popped[1] # popped[2]
    /\ fifo.count >= 1

\* C2: a Push on a full ring with overwrite disabled returns failure and
\* changes nothing of the ring: count, head, tail and storage stay as they are.
C2_PushFullRejected ==
    [][(op' = "Push" /\ fifo.count = fifo.size /\ ~fifo.overwrite_enabled)
          => (ret' = FALSE /\ fifo' = fifo)]_vars

C2_Witness ==
    /\ op = "Push"
    /\ ret = FALSE
    /\ fifo.count = fifo.size
    /\ ~fifo.overwrite_enabled
    /\ fifo.buffer[fifo.tail] # arg[1]

\* C3: a Push on a full ring with overwrite enabled succeeds, keeps count at
\* size, moves tail on by one modulo size and drops exactly the oldest byte;
\* as long as nothing was popped, popping until empty yields the last
\* min(n, size) of the n accepted bytes, in push order.
C3_OverwriteDropsOldest ==
    /\ [][(op' = "Push" /\ fifo.count = fifo.size /\ fifo.overwrite_enabled)
            => /\ ret' = TRUE
               /\ fifo'.count = fifo.size
               /\ fifo'.tail = (fifo.tail + 1) % fifo.size
               /\ Drain(fifo') = Tail(Drain(fifo)) \o arg']_vars
    /\ [](popped = <<>> =>
            Drain(fifo) = LastN(pushed, Min(Len(pushed), fifo.size)))

C3_Witness ==
    /\ op = "Push"
    /\ ret = TRUE
    /\ fifo.overwrite_enabled
    /\ popped = <<>>
    /\ fifo.size >= 2
    /\ discarded >= 2
    /\ pushed[Len(pushed)] # pushed[Len(pushed) - 1]

\* C4: Pop on an empty ring fails and leaves the ring and the caller's output
\* byte as they are; Pop on a non-empty ring returns the byte at tail, moves
\* tail on by one modulo size, takes one off count and touches nothing else.
C4_PopContract ==
    [][op' = "Pop" =>
          IF fifo.count = 0
          THEN ret' = FALSE /\ fifo' = fifo /\ out' = out
          ELSE /\ ret' = TRUE
               /\ out' = fifo.buffer[fifo.tail]
               /\ fifo' = [fifo EXCEPT !.tail = (fifo.tail + 1) % fifo.size,
                                       !.count = fifo.count - 1]]_vars

C4_Witness ==
    /\ op = "Pop"
    /\ ret = FALSE
    /\ Len(popped) >= 1
    /\ out = popped[Len(popped)]
    /\ fifo.buffer[fifo.tail] # out

C6_EmptyFullExclusive ==
    /\ op = "IsFull" => (ret <=> fifo.count = fifo.size)
    /\ op = "IsEmpty" => (ret <=> fifo.count = 0)
    /\ ~(FIFO_IsEmpty(fifo) /\ FIFO_IsFull(fifo))
    /\ FIFO_IsFull(fifo) <=> fifo.count = fifo.size
    /\ FIFO_IsEmpty(fifo) <=> fifo.count = 0

C6_Witness ==
    /\ op = "IsFull"
    /\ ret = TRUE
    /\ fifo.head = fifo.tail
    /\ fifo.size >= 2
    /\ ~FIFO_IsEmpty(fifo)

\* C7: count stays within 0..size, head and tail within 0..size-1, and size
\* never changes, whatever Push, PushOverwrite, Pop, Peek, Reset and
\* SetOverwrite calls are made.
C7_IndexRanges ==
    /\ [](/\ fifo.size >= 1
          /\ fifo.count \in 0..fifo.size
          /\ fifo.head \in 0..(fifo.size - 1)
          /\ fifo.tail \in 0..(fifo.size - 1))
    /\ [][fifo'.size = fifo.size]_vars

C7_Witness ==
    /\ fifo.size >= 2
    /\ fifo.count = fifo.size
    /\ discarded >= 1
    /\ Len(popped) >= 1
    /\ fifo.head = 0
    /\ fifo.tail = 0

\* C8: Add_UART_Message is all-or-nothing with respect to the ring's live
\* free space: when size - count < length it fails and pushes no byte (head,
\* tail and count unchanged); when length >= 3 and size - count >= length it
\* succeeds and the ring then holds the length bytes after its old content.
C8_AddAllOrNothing ==
    [][op' = "Add" =>
          LET len == arg'[1]
              m == Tail(arg')
          IN  /\ (fifo.size - fifo.count < len) =>
                    /\ ret' = FALSE
                    /\ fifo'.head = fifo.head
                    /\ fifo'.tail = fifo.tail
                    /\ fifo'.count = fifo.count
                    /\ pushed' = pushed
              /\ (len >= 3 /\ fifo.size - fifo.count >= len) =>
                    /\ ret' = TRUE
                    /\ Drain(fifo') = Drain(fifo) \o SubSeq(m, 1, len)]_vars

\* C9: round trip.  Add_UART_Message of a well-formed message m of length len
\* on an empty ring of capacity >= len succeeds, and the Get_UART_Message
\* right after it succeeds with length = len and message[0..len-1] = m,
\* leaving the ring empty.
C9_RoundTrip ==
    [][/\ (/\ op' = "Add"
           /\ fifo.count = 0
           /\ WellFormed(Tail(arg'))
           /\ arg'[1] = Len(Tail(arg'))
           /\ fifo.size >= arg'[1])
          => (ret' = TRUE /\ Drain(fifo') = Tail(arg'))
       /\ (/\ op' = "Get"
           /\ op = "Add"
           /\ ret = TRUE
           /\ WellFormed(Tail(arg))
           /\ arg[1] = Len(Tail(arg))
           /\ Drain(fifo) = Tail(arg))
          => /\ ret' = TRUE
             /\ length' = arg[1]
             /\ SubSeq(message', 1, arg[1]) = Tail(arg)
             /\ fifo'.count = 0]_vars

\* a ring of the given capacity after the given bytes were pushed into it
RingHolding(size, bytes) ==
    AddIter([fifo |-> FIFO_Init(ZeroStorage(size), size), i |-> 0, done |-> FALSE],
            bytes, Len(bytes)).fifo

\* C10: when the ring holds at its tail a complete frame (start byte, length
\* byte L >= 3, L - 2 further bytes), Get_UART_Message succeeds exactly when
\* the bytes at offsets 2..L-1 xor to zero, and otherwise leaves through the
\* checksum test; on success it reports L and the frame.  On a ring of
\* capacity 8, AA 04 10 14 is rejected and AA 04 10 10 is returned with
\* length 4.
C10_ChecksumDecides ==
    [][op' = "Get" =>
          LET c == Drain(fifo)
          IN  /\ (/\ Len(c) >= 2
                  /\ c[1] = MESSAGE_START_BYTE
                  /\ c[2] >= 3
                  /\ Len(c) >= c[2])
                 => /\ ret' = (XorAll(SubSeq(c, 3, c[2])) = 0)
                    /\ ~ret' => why' = "ChecksumMismatch"
                    /\ ret' => /\ length' = c[2]
                               /\ SubSeq(message', 1, c[2]) = SubSeq(c, 1, c[2])
              /\ Xor(16, 20) = 4
              /\ Get_UART_Message(RingHolding(8, <<170, 4, 16, 20>>), <<>>, 0).why
                    = "ChecksumMismatch"
              /\ Get_UART_Message(RingHolding(8, <<170, 4, 16, 16>>), <<>>, 0).ret
              /\ Get_UART_Message(RingHolding(8, <<170, 4, 16, 16>>), <<>>, 0).length = 4]_vars

C10_Witness ==
    /\ op = "Get"
    /\ ret = FALSE
    /\ why = "ChecksumMismatch"
    /\ length = 4
    /\ Len(message) >= 4
    /\ SubSeq(message, 1, 4) = <<170, 4, 16, 20>>
    /\ Len(popped) > fifo.size

\* C11: Get_UART_Message on a non-empty ring whose tail byte is not the start
\* byte fails through the start-byte test and consumes exactly that byte, the
\* later bytes staying in the ring in order; on an empty ring it fails as
\* empty and changes nothing.
C11_InvalidStartConsumesOne ==
    [][op' = "Get" =>
          /\ fifo.count = 0 =>
                /\ ret' = FALSE
                /\ why' = "Empty"
                /\ fifo' = fifo
                /\ message' = message
                /\ length' = length
                /\ popped' = popped
          /\ (fifo.count > 0 /\ fifo.buffer[fifo.tail] # MESSAGE_START_BYTE) =>
                /\ ret' = FALSE
                /\ why' = "InvalidStart"
                /\ fifo'.count = fifo.count - 1
                /\ fifo'.tail = (fifo.tail + 1) % fifo.size
                /\ fifo'.head = fifo.head
                /\ Drain(fifo') = Tail(Drain(fifo))
                /\ popped' = Append(popped, fifo.buffer[fifo.tail])]_vars

C11_Witness ==
    /\ op = "Get"
    /\ ret = FALSE
    /\ why = "InvalidStart"
    /\ fifo.count >= 2
    /\ Len(popped) >= 2
    /\ popped[Len(popped)] # MESSAGE_START_BYTE

\* C12: Get_UART_Message leaves through the incomplete-message return exactly
\* when the ring held the start byte, a length byte L >= 3 and fewer than
\* L - 2 further bytes; it then has consumed every byte that was in the ring,
\* so the ring is empty.
C12_IncompleteDrainsRing ==
    [][op' = "Get" =>
          LET c == Drain(fifo)
          IN  /\ (why' = "Incomplete") <=>
                    /\ Len(c) >= 2
                    /\ c[1] = MESSAGE_START_BYTE
                    /\ c[2] >= 3
                    /\ Len(c) < c[2]
              /\ why' = "Incomplete" =>
                    /\ ret' = FALSE
                    /\ fifo'.count = 0
                    /\ Drain(fifo') = <<>>
                    /\ popped' = popped \o c]_vars

C12_Witness ==
    /\ op = "Get"
    /\ ret = FALSE
    /\ why = "Incomplete"
    /\ fifo.count = 0
    /\ Len(popped) >= 3
    /\ SubSeq(popped, Len(popped) - 2, Len(popped) - 1) = <<MESSAGE_START_BYTE, 3>>

\* C15: Reset sets head, tail and count to 0 and changes nothing else: size,
\* watermarks, overwrite flag and the bytes in storage stay; right after it
\* IsEmpty is true, Pop fails and Peek(0) fails.
C15_ResetFrame ==
    [][op' = "Reset" =>
          /\ fifo'.head = 0
          /\ fifo'.tail = 0
          /\ fifo'.count = 0
          /\ fifo'.size = fifo.size
          /\ fifo'.high_watermark = fifo.high_watermark
          /\ fifo'.low_watermark = fifo.low_watermark
          /\ fifo'.overwrite_enabled = fifo.overwrite_enabled
          /\ fifo'.buffer = fifo.buffer
          /\ out' = out
          /\ FIFO_IsEmpty(fifo')
          /\ FIFO_Pop(fifo', out').ret = FALSE
          /\ FIFO_Peek(fifo', 0, out').ret = FALSE]_vars

C15_Witness ==
    /\ op = "Reset"
    /\ fifo.count = 0
    /\ fifo.overwrite_enabled
    /\ fifo.size >= 2
    /\ fifo.buffer[0] # 0
    /\ fifo.buffer[1] # 0

\* C17: PushOverwrite always inserts the byte: on a ring that is not full it
\* leaves the ring as Push does, on a full ring it leaves it as Push with
\* overwrite enabled does, and the overwrite flag keeps its value.
C17_PushOverwriteIsPushWithOverwrite ==
    [][op' = "PushOverwrite" =>
          LET d == arg'[1]
              enabled == FIFO_Push(FIFO_SetOverwrite(fifo, TRUE), d)
          IN  /\ fifo.count < fifo.size =>
                    (FIFO_Push(fifo, d).ret /\ fifo' = FIFO_Push(fifo, d).fifo)
              /\ enabled.ret
              /\ fifo' = FIFO_SetOverwrite(enabled.fifo, fifo.overwrite_enabled)
              /\ fifo'.overwrite_enabled = fifo.overwrite_enabled
              /\ Drain(fifo')[Len(Drain(fifo'))] = d]_vars

C17_Witness ==
    /\ op = "PushOverwrite"
    /\ ~fifo.overwrite_enabled
    /\ discarded >= 1
    /\ fifo.count = fifo.size
    /\ fifo.size >= 2

\* C18: head = (tail + count) mod size in every reachable state, so head =
\* tail whenever the ring is empty or full, also after an overwrite wrapped.
C18_HeadIsTailPlusCount ==
    /\ fifo.head = (fifo.tail + fifo.count) % fifo.size
    /\ (fifo.count = 0 \/ fifo.count = fifo.size) => fifo.head = fifo.tail

C18_Witness ==
    /\ fifo.count = fifo.size
    /\ fifo.size >= 2
    /\ discarded >= 1
    /\ fifo.head = fifo.tail
    /\ fifo.head # 0

\* the first two frames of a byte sequence, cut at the length bytes
FirstFrame(c) == SubSeq(c, 1, c[2])

AfterFirstFrame(c) == SubSeq(c, c[2] + 1, Len(c))

StartsWithFrame(c) ==
    /\ Len(c) >= 3
    /\ c[2] >= 3
    /\ Len(c) >= c[2]
    /\ WellFormed(FirstFrame(c))

\* C19: a successful Get_UART_Message of length L removes exactly L bytes:
\* count goes down by L, tail moves on by L modulo size, head and the later
\* bytes stay; and when the ring holds two well-formed messages back to back,
\* two consecutive calls return them in the order they were added.
C19_GetRemovesOneMessage ==
    /\ [][(op' = "Get" /\ ret') =>
            LET c == Drain(fifo)
                L == length'
            IN  /\ L >= 3
                /\ Len(c) >= L
                /\ fifo'.count = fifo.count - L
                /\ fifo'.tail = (fifo.tail + L) % fifo.size
                /\ fifo'.head = fifo.head
                /\ Drain(fifo') = SubSeq(c, L + 1, Len(c))
                /\ SubSeq(message', 1, L) = SubSeq(c, 1, L)
                /\ popped' = popped \o SubSeq(c, 1, L)]_vars
    /\ [](LET c == Drain(fifo)
          IN  (StartsWithFrame(c) /\ StartsWithFrame(AfterFirstFrame(c))) =>
                 LET g1 == Get_UART_Message(fifo, message, length)
                     g2 == Get_UART_Message(g1.fifo, g1.message, g1.length)
                 IN  /\ g1.ret
                     /\ SubSeq(g1.message, 1, g1.length) = FirstFrame(c)
                     /\ g2.ret
                     /\ SubSeq(g2.message, 1, g2.length)
                           = FirstFrame(AfterFirstFrame(c))
                     /\ Drain(g2.fifo)
                           = AfterFirstFrame(AfterFirstFrame(c)))

C19_Witness ==
    /\ op = "Get"
    /\ ret = TRUE
    /\ fifo.size <= MaxRing
    /\ fifo.count = 0
    /\ Len(popped) >= 8
    /\ LastN(popped, 7) = <<170, 3, 0, 170, 4, 16, 16>>
    /\ fifo.tail < 4

\* C16: after either initialiser, for every 16-bit size, both watermarks lie
\* in 0..size: the static one sets high = size - size \div 4 and low =
\* size \div 4, the dynamic one (when it succeeds) high = size - 1 modulo 2^16
\* and low = 1, and both leave head = tail = count = 0 with overwrite off.
C16_WatermarksInRange ==
    LET size == arg[1]
    IN  /\ op = "InitStatic" =>
              /\ fifo.high_watermark = size - (size \div 4)
              /\ fifo.low_watermark = size \div 4
        /\ (op = "InitDynamic" /\ ret) =>
              /\ fifo.high_watermark = (size - 1) % U16
              /\ fifo.low_watermark = 1
        /\ (op = "InitStatic" \/ (op = "InitDynamic" /\ ret)) =>
              /\ fifo.size = size
              /\ fifo.high_watermark \in 0..size
              /\ fifo.low_watermark \in 0..size
              /\ fifo.head = 0
              /\ fifo.tail = 0
              /\ fifo.count = 0
              /\ ~fifo.overwrite_enabled

\* the task is not in the middle of FIFO_Push or FIFO_Pop
Quiescent == task.pc \notin (PushBody \cup PopBody)

\* a step of the interrupt handler that moved head, tail or count
HandlerMovedRing ==
    /\ task' = task
    /\ \/ fifo'.head # fifo.head
       \/ fifo'.tail # fifo.tail
       \/ fifo'.count # fifo.count

\* C13: with the task using only FIFO_PushSafe / FIFO_PopSafe and a handler
\* that pushes or pops whenever interrupts are enabled, no handler runs while
\* the task is inside FIFO_Push or FIFO_Pop, so between operations count is
\* the number of bytes pushed minus popped and discarded, and the ring holds
\* the newest count pushed bytes in push order.
C13_SafeVariantsAtomic ==
    /\ [][HandlerMovedRing => task.pc \notin (PushBody \cup PopBody)]_vars
    /\ []((task.pc \in (PushBody \cup PopBody)) => ~SREG_I)
    /\ [](Quiescent =>
            /\ fifo.count = Stored
            /\ fifo.count \in 0..fifo.size
            /\ fifo.head = (fifo.tail + fifo.count) % fifo.size
            /\ Drain(fifo) = LastN(pushed, Stored)
            /\ discarded = 0 => popped \o Drain(fifo) = pushed)

C13_Witness ==
    /\ task.pc = "idle"
    /\ op = "PushSafe"
    /\ ret = TRUE
    /\ SREG_I
    /\ Len(pushed) = MaxIrqBytes + 1
    /\ Len(popped) >= 2
    /\ fifo.count = Stored

\* C14: FIFO_PushSafe and FIFO_PopSafe return with the interrupt enable flag
\* as they found it, on the success and on the failure path; a call made
\* with interrupts disabled returns with interrupts disabled.
C14_InterruptStateRestored ==
    [][(task.pc \in {"PushSafe_restore", "PopSafe_restore"} /\ task'.pc = "idle")
          => SREG_I' = task.entry]_vars

C14_Witness ==
    /\ task.pc = "idle"
    /\ op = "PushSafe"
    /\ ret = FALSE
    /\ ~task.entry
    /\ ~SREG_I
    /\ fifo.count = fifo.size

\* C20: main polls Get_UART_Message (FIFO_IsEmpty, FIFO_Pop) while
\* ISR(USART_RX_vect) pushes with FIFO_Push and may run between any two
\* accesses of the ring: whenever the task is outside FIFO_Pop, count is the
\* number of bytes stored, head = (tail + count) mod size, and the bytes taken
\* out followed by the bytes still in the ring are the bytes pushed.
C20_DeploymentConsistent ==
    (task.pc \notin PopBody) =>
        /\ fifo.count = Stored
        /\ fifo.head = (fifo.tail + fifo.count) % fifo.size
        /\ popped \o Drain(fifo) = pushed

====
